---- MODULE Spec2Model ----
(***************************************************************************)
(* Model of okofan.py: the log file index (open_action, load_log_list,     *)
(* getlogdate) and the log record parser (item_activated, convert_time).   *)
(*                                                                         *)
(* Text is modelled as sequences of one-character strings, so that the     *)
(* file name matching of glob, the date parsing of strptime and the date   *)
(* formatting of isoformat are computed, not assumed.                      *)
(***************************************************************************)
EXTENDS Integers, Sequences, FiniteSets, TLC

(***************************************************************************)
(* Bounds of the model.                                                    *)
(***************************************************************************)
\* the detail graph tab holds at most this many canvases in the model
MaxGraphs == 1

(***************************************************************************)
(* Characters.                                                             *)
(***************************************************************************)
Digits == <<"0", "1", "2", "3", "4", "5", "6", "7", "8", "9">>

Upper == <<"A", "B", "C", "D", "E", "F", "G", "H", "I", "J", "K", "L", "M",
           "N", "O", "P", "Q", "R", "S", "T", "U", "V", "W", "X", "Y", "Z">>

Lower == <<"a", "b", "c", "d", "e", "f", "g", "h", "i", "j", "k", "l", "m",
           "n", "o", "p", "q", "r", "s", "t", "u", "v", "w", "x", "y", "z">>

\* the characters of the model in ASCII order
Alphabet == <<"!", "*", "-", ".">> \o Digits \o <<":", "?">> \o Upper
            \o <<"[", "]">> \o Lower

Ord(c) == CHOOSE i \in 1..Len(Alphabet) : Alphabet[i] = c

IsDigit(c) == \E i \in 1..10 : Digits[i] = c

DigitVal(c) == (CHOOSE i \in 1..10 : Digits[i] = c) - 1

\* str.lower on one character
LowerChar(c) ==
    IF \E i \in 1..26 : Upper[i] = c
    THEN Lower[CHOOSE i \in 1..26 : Upper[i] = c]
    ELSE c

\* os.path.normcase: the identity on POSIX, lower-casing on Windows
NormCase(s, win) == IF win THEN [i \in 1..Len(s) |-> LowerChar(s[i])] ELSE s

(***************************************************************************)
(* fnmatch, as glob.glob applies it to one path component.                 *)
(***************************************************************************)
\* glob.has_magic: the component holds one of * ? [
HasMagic(s) == \E i \in 1..Len(s) : s[i] \in {"*", "?", "["}

RECURSIVE SkipToBracket(_, _)
SkipToBracket(pat, j) ==
    IF j <= Len(pat) /\ pat[j] # "]" THEN SkipToBracket(pat, j + 1) ELSE j

\* fnmatch.translate: the position of the ] closing the [ at position i,
\* or a position past the end when the [ is not closed
ClassEnd(pat, i) ==
    LET j1 == i + 1
        j2 == IF j1 <= Len(pat) /\ pat[j1] = "!" THEN j1 + 1 ELSE j1
        j3 == IF j2 <= Len(pat) /\ pat[j2] = "]" THEN j2 + 1 ELSE j2
    IN  SkipToBracket(pat, j3)

RECURSIVE InSet(_, _, _)
InSet(stuff, p, c) ==
    IF p > Len(stuff) THEN FALSE
    ELSE IF p + 2 <= Len(stuff) /\ stuff[p + 1] = "-"
         THEN \/ (Ord(stuff[p]) <= Ord(c) /\ Ord(c) <= Ord(stuff[p + 2]))
              \/ InSet(stuff, p + 3, c)
         ELSE stuff[p] = c \/ InSet(stuff, p + 1, c)

\* a character class [stuff] or [!stuff]
InClass(stuff, c) ==
    IF Len(stuff) > 0 /\ stuff[1] = "!"
    THEN ~InSet(stuff, 2, c)
    ELSE InSet(stuff, 1, c)

RECURSIVE MatchFrom(_, _, _, _)
MatchFrom(pat, i, name, k) ==
    IF i > Len(pat) THEN k > Len(name)
    ELSE IF pat[i] = "*"
         THEN \E k2 \in k..(Len(name) + 1) : MatchFrom(pat, i + 1, name, k2)
    ELSE IF pat[i] = "?"
         THEN k <= Len(name) /\ MatchFrom(pat, i + 1, name, k + 1)
    ELSE IF pat[i] = "[" /\ ClassEnd(pat, i) <= Len(pat)
         THEN /\ k <= Len(name)
              /\ InClass(SubSeq(pat, i + 1, ClassEnd(pat, i) - 1), name[k])
              /\ MatchFrom(pat, ClassEnd(pat, i) + 1, name, k + 1)
    ELSE k <= Len(name) /\ name[k] = pat[i] /\ MatchFrom(pat, i + 1, name, k + 1)

\* fnmatch.filter on one name: pattern and name are both normcased
FnMatch(name, pat, win) ==
    MatchFrom(NormCase(pat, win), 1, NormCase(name, win), 1)

\* the file name part of the pattern of open_action: CM, six [0-9], .csv
LogPattern ==
    <<"C", "M">>
    \o <<"[", "0", "-", "9", "]">> \o <<"[", "0", "-", "9", "]">>
    \o <<"[", "0", "-", "9", "]">> \o <<"[", "0", "-", "9", "]">>
    \o <<"[", "0", "-", "9", "]">> \o <<"[", "0", "-", "9", "]">>
    \o <<".", "c", "s", "v">>

(***************************************************************************)
(* Parsing and formatting of numbers, dates and times.                     *)
(***************************************************************************)
\* the result of a call that may raise: ok = FALSE stands for the exception
Ok(v) == [ok |-> TRUE, val |-> v]

Raised == [ok |-> FALSE, val |-> <<>>]

RECURSIVE Split(_, _)
\* str.split(sep) for a one-character separator
Split(s, sep) ==
    IF \A i \in 1..Len(s) : s[i] # sep THEN <<s>>
    ELSE LET p == CHOOSE i \in 1..Len(s) :
                      s[i] = sep /\ \A j \in 1..(i - 1) : s[j] # sep
         IN  <<SubSeq(s, 1, p - 1)>> \o Split(SubSeq(s, p + 1, Len(s)), sep)

RECURSIVE DigitsValue(_)
DigitsValue(s) ==
    IF Len(s) = 0 THEN 0
    ELSE 10 * DigitsValue(SubSeq(s, 1, Len(s) - 1)) + DigitVal(s[Len(s)])

\* a run of lo..hi decimal digits as a number, -1 for anything else
Num(s, lo, hi) ==
    IF Len(s) >= lo /\ Len(s) <= hi /\ \A i \in 1..Len(s) : IsDigit(s[i])
    THEN DigitsValue(s)
    ELSE -1

RECURSIVE Pad(_, _)
\* the decimal digits of n, zero-padded to the given width
Pad(n, width) ==
    IF width = 0 THEN <<>>
    ELSE Pad(n \div 10, width - 1) \o <<Digits[(n % 10) + 1]>>

IsLeap(y) == (y % 4 = 0 /\ y % 100 # 0) \/ y % 400 = 0

DaysInMonth(y, m) ==
    IF m = 2 THEN (IF IsLeap(y) THEN 29 ELSE 28)
    ELSE IF m \in {4, 6, 9, 11} THEN 30 ELSE 31

\* datetime.strptime(field, '%d.%m.%Y').date().isoformat()
StrpDate(field) ==
    LET parts == Split(field, ".")
        d == Num(parts[1], 1, 2)
        m == Num(parts[2], 1, 2)
        y == Num(parts[3], 4, 4)
    IN  IF Len(parts) # 3 THEN Raised
        ELSE IF d < 1 \/ m < 1 \/ m > 12 \/ y < 1 THEN Raised
        ELSE IF d > DaysInMonth(y, m) THEN Raised
        ELSE Ok(Pad(y, 4) \o <<"-">> \o Pad(m, 2) \o <<"-">> \o Pad(d, 2))

\* convert_time followed by time().isoformat(): the time of day of
\* strptime(date + ' ' + timestring, '%Y-%m-%d %H:%M:%S')
convert_time(timestring) ==
    LET parts == Split(timestring, ":")
        h == Num(parts[1], 1, 2)
        m == Num(parts[2], 1, 2)
        s == Num(parts[3], 1, 2)
    IN  IF Len(parts) # 3 THEN Raised
        ELSE IF h < 0 \/ h > 23 \/ m < 0 \/ m > 59 \/ s < 0 \/ s > 59 THEN Raised
        ELSE Ok(Pad(h, 2) \o <<":">> \o Pad(m, 2) \o <<":">> \o Pad(s, 2))

\* the int conversion of a numeric column: an optional sign and digits
IntConv(s) ==
    LET body == IF Len(s) > 0 /\ s[1] = "-" THEN SubSeq(s, 2, Len(s)) ELSE s
        v == Num(body, 1, 9)
    IN  IF v < 0 THEN Raised
        ELSE Ok(IF Len(s) > 0 /\ s[1] = "-" THEN 0 - v ELSE v)

(***************************************************************************)
(* The file system the program runs against.  It does not change while the *)
(* program runs.  A directory is named by one path component, a path is    *)
(* the pair <<directory, file name>> that os.path.join would build.        *)
(***************************************************************************)
DirA == <<"a">>

DirB == <<"b">>

DirC == <<"c">>

DirD == <<"d">>

DirE == <<"e">>

\* a directory whose name reads as a glob pattern
DirBracket == <<"[", "b", "]">>

Directories == {DirA, DirB, DirC, DirD, DirE, DirBracket}

Zuendung == <<"Z", "u", "e", "n", "d", "u", "n", "g">>

Softstrt == <<"S", "o", "f", "t", "s", "t", "r", "t">>

Burning == <<"B", "u", "r", "n", "i", "n", "g">>

Nachlauf == <<"N", "a", "c", "h", "l", "a", "u", "f">>

\* a status that is none of the four
Aus == <<"A", "u", "s">>

\* a status field whose bytes are not valid text
Undecodable == <<"?">>

GoodNums == [i \in 1..10 |-> <<Digits[i]>>]

\* the ten numeric fields with a non-integer text in column col
BadNums(col) == [i \in 1..10 |-> IF i = col THEN <<"a", "b", "c">> ELSE <<Digits[i]>>]

\* one data row: raw column 1, the time, the ten numeric fields, the status
Row(date, time, nums, sm) == [date |-> date, time |-> time, nums |-> nums, sm |-> sm]

\* a file: whether it can be opened, whether it has a header line, and its
\* data rows (blank lines already dropped)
File(readable, header, rows) == [readable |-> readable, header |-> header, rows |-> rows]

NoFile == File(FALSE, FALSE, <<>>)

Listing(dir) ==
    IF dir = DirA THEN {<<"C", "M", "1", "3", "0", "5", "1", "3", ".", "c", "s", "v">>, <<"C", "M", "1", "3", "0", "5", "1", "5", ".", "c", "s", "v">>, <<"C", "M", "1", "3", "0", "5", "1", "6", ".", "C", "S", "V">>,
                        <<"C", "M", "1", "3", "0", "5", "1", ".", "c", "s", "v">>, <<"n", "o", "t", "e", "s", ".", "c", "s", "v">>}
    ELSE IF dir = DirB THEN {<<"C", "M", "1", "3", "0", "6", "0", "1", ".", "c", "s", "v">>, <<"C", "M", "1", "3", "0", "6", "0", "2", ".", "c", "s", "v">>}
    ELSE IF dir = DirC THEN {<<"r", "e", "a", "d", "m", "e", ".", "t", "x", "t">>}
    ELSE IF dir = DirD THEN {<<"C", "M", "1", "3", "0", "7", "0", "1", ".", "c", "s", "v">>, <<"C", "M", "1", "3", "0", "7", "0", "2", ".", "c", "s", "v">>}
    ELSE IF dir = DirE THEN {<<"C", "M", "1", "3", "0", "8", "0", "1", ".", "c", "s", "v">>, <<"C", "M", "1", "3", "0", "8", "0", "2", ".", "c", "s", "v">>}
    ELSE IF dir = DirBracket THEN {<<"C", "M", "1", "3", "0", "5", "1", "7", ".", "c", "s", "v">>}
    ELSE {}

Content(path) ==
    IF path = <<DirA, <<"C", "M", "1", "3", "0", "5", "1", "3", ".", "c", "s", "v">>>> THEN
        File(TRUE, TRUE, <<Row(<<"1", "3", ".", "0", "5", ".", "2", "0", "1", "3">>, <<"9", ":", "5", ":", "3">>, GoodNums, Zuendung),
                           Row(<<"1", "3", ".", "0", "5", ".", "2", "0", "1", "3">>, <<"9", ":", "6", ":", "0">>, GoodNums, Aus),
                           Row(<<"1", "3", ".", "0", "5", ".", "2", "0", "1", "3">>, <<"9", ":", "7", ":", "0">>, GoodNums, <<>>),
                           Row(<<"1", "3", ".", "0", "5", ".", "2", "0", "1", "3">>, <<"0", "9", ":", "0", "8", ":", "0", "0">>, GoodNums, Undecodable)>>)
    ELSE IF path = <<DirA, <<"C", "M", "1", "3", "0", "5", "1", "5", ".", "c", "s", "v">>>> THEN
        File(TRUE, TRUE, <<Row(<<"1", "3", ".", "5", ".", "2", "0", "1", "3">>, <<"1", "0", ":", "0", "0", ":", "0", "0">>, GoodNums, Burning),
                           Row(<<"1", "3", ".", "5", ".", "2", "0", "1", "3">>, <<"1", "0", ":", "0", "1", ":", "0", "0">>, BadNums(4), Burning)>>)
    ELSE IF path = <<DirA, <<"C", "M", "1", "3", "0", "5", "1", "6", ".", "C", "S", "V">>>> THEN
        File(TRUE, TRUE, <<Row(<<"1", "6", ".", "0", "5", ".", "2", "0", "1", "3">>, <<"1", ":", "0", "0", ":", "0", "0">>, GoodNums, Softstrt),
                           Row(<<"1", "6", ".", "0", "5", ".", "2", "0", "1", "3">>, <<"1", ":", "0", "1", ":", "0", "0">>, GoodNums, Nachlauf),
                           Row(<<"1", "6", ".", "0", "5", ".", "2", "0", "1", "3">>, <<"1", ":", "0", "2", ":", "0", "0">>, GoodNums, Burning)>>)
    ELSE IF path = <<DirA, <<"C", "M", "1", "3", "0", "5", "1", ".", "c", "s", "v">>>> THEN
        File(TRUE, TRUE, <<Row(<<"1", "5", ".", "0", "5", ".", "2", "0", "1", "3">>, <<"2", ":", "0", "0", ":", "0", "0">>, GoodNums, Burning),
                           Row(<<"1", "5", ".", "0", "5", ".", "2", "0", "1", "3">>, <<"2", ":", "0", "1", ":", "0", "0">>, GoodNums, Burning)>>)
    ELSE IF path = <<DirA, <<"n", "o", "t", "e", "s", ".", "c", "s", "v">>>> THEN
        File(TRUE, TRUE, <<Row(<<"1", "7", ".", "0", "5", ".", "2", "0", "1", "3">>, <<"3", ":", "0", "0", ":", "0", "0">>, GoodNums, Burning),
                           Row(<<"1", "7", ".", "0", "5", ".", "2", "0", "1", "3">>, <<"3", ":", "0", "1", ":", "0", "0">>, GoodNums, Burning)>>)
    ELSE IF path = <<DirB, <<"C", "M", "1", "3", "0", "6", "0", "1", ".", "c", "s", "v">>>> THEN
        File(TRUE, TRUE, <<Row(<<"0", "1", ".", "0", "6", ".", "2", "0", "1", "3">>, <<"4", ":", "0", "0", ":", "0", "0">>, BadNums(1), Burning),
                           Row(<<"0", "1", ".", "0", "6", ".", "2", "0", "1", "3">>, <<"4", ":", "0", "1", ":", "0", "0">>, GoodNums, Burning)>>)
    ELSE IF path = <<DirB, <<"C", "M", "1", "3", "0", "6", "0", "2", ".", "c", "s", "v">>>> THEN
        File(TRUE, TRUE, <<Row(<<"2", ".", "6", ".", "2", "0", "1", "3">>, <<"5", ":", "0", "0", ":", "0", "0">>, GoodNums, Softstrt),
                           Row(<<"2", ".", "6", ".", "2", "0", "1", "3">>, <<"2", "5", ":", "0", "0", ":", "0", "0">>, GoodNums, Nachlauf)>>)
    ELSE IF path = <<DirC, <<"r", "e", "a", "d", "m", "e", ".", "t", "x", "t">>>> THEN
        File(TRUE, TRUE, <<Row(<<"1", "8", ".", "0", "5", ".", "2", "0", "1", "3">>, <<"6", ":", "0", "0", ":", "0", "0">>, GoodNums, Burning),
                           Row(<<"1", "8", ".", "0", "5", ".", "2", "0", "1", "3">>, <<"6", ":", "0", "1", ":", "0", "0">>, GoodNums, Burning)>>)
    ELSE IF path = <<DirD, <<"C", "M", "1", "3", "0", "7", "0", "1", ".", "c", "s", "v">>>> THEN
        File(TRUE, TRUE, <<Row(<<"0", "1", ".", "0", "7", ".", "2", "0", "1", "3">>, <<"7", ":", "0", "0", ":", "0", "0">>, GoodNums, Burning)>>)
    ELSE IF path = <<DirD, <<"C", "M", "1", "3", "0", "7", "0", "2", ".", "c", "s", "v">>>> THEN
        File(TRUE, TRUE, <<Row(<<"2", "0", "1", "3", "-", "0", "7", "-", "0", "2">>, <<"8", ":", "0", "0", ":", "0", "0">>, GoodNums, Burning),
                           Row(<<"2", "0", "1", "3", "-", "0", "7", "-", "0", "2">>, <<"8", ":", "0", "1", ":", "0", "0">>, GoodNums, Burning)>>)
    ELSE IF path = <<DirE, <<"C", "M", "1", "3", "0", "8", "0", "1", ".", "c", "s", "v">>>> THEN
        File(FALSE, TRUE, <<Row(<<"0", "1", ".", "0", "8", ".", "2", "0", "1", "3">>, <<"9", ":", "0", "0", ":", "0", "0">>, GoodNums, Burning),
                            Row(<<"0", "1", ".", "0", "8", ".", "2", "0", "1", "3">>, <<"9", ":", "0", "1", ":", "0", "0">>, GoodNums, Burning)>>)
    ELSE IF path = <<DirE, <<"C", "M", "1", "3", "0", "8", "0", "2", ".", "c", "s", "v">>>> THEN
        File(TRUE, TRUE, <<>>)
    ELSE IF path = <<DirBracket, <<"C", "M", "1", "3", "0", "5", "1", "7", ".", "c", "s", "v">>>> THEN
        File(TRUE, TRUE, <<Row(<<"1", "9", ".", "0", "5", ".", "2", "0", "1", "3">>, <<"1", "1", ":", "0", "0", ":", "0", "0">>, GoodNums, Burning),
                           Row(<<"1", "9", ".", "0", "5", ".", "2", "0", "1", "3">>, <<"1", "1", ":", "0", "1", ":", "0", "0">>, GoodNums, Burning)>>)
    ELSE NoFile

AllPaths == UNION {{<<d, n>> : n \in Listing(d)} : d \in Directories}

(***************************************************************************)
(* The log file index: open_action, load_log_list, getlogdate.             *)
(***************************************************************************)
\* GlobFilter with the pattern *.csv in place of CM[0-9]...[0-9].csv
GlobFilterAnyCsv(names, win) == {m \in names : FnMatch(m, <<"*", ".", "c", "s", "v">>, win)}

\* which names fnmatch lets through for the pattern of open_action
GlobFilter(names, win) == {m \in names : FnMatch(m, LogPattern, win)}

\* glob.glob(directory + '/CM' + '[0-9]' * 6 + '.csv'): a directory part
\* that holds a glob character is itself matched against the existing
\* directories, the file name part against the names in each of them
Glob(directory, win) ==
    LET dirs == IF HasMagic(directory)
                THEN {e \in Directories : FnMatch(e, directory, win)}
                ELSE {directory}
    IN  UNION {{<<e, n>> : n \in GlobFilter(Listing(e), win)} : e \in dirs}

\* the orders in which glob may return the files of a set
Orders(S) ==
    {f \in [1..Cardinality(S) -> S] :
        \A i, j \in 1..Cardinality(S) : i # j => f[i] # f[j]}

\* the file lists open_action can get for a directory, per platform
FileLists == [win \in BOOLEAN |-> [d \in Directories |-> Orders(Glob(d, win))]]

\* getlogdate: open the file, skip the header, parse the first field of the
\* first data row as DD.MM.YYYY and return it as YYYY-MM-DD
getlogdate(filepath) ==
    LET logfile == Content(filepath)
    IN  IF ~logfile.readable THEN Raised
        ELSE IF ~logfile.header THEN Raised
        ELSE IF Len(logfile.rows) = 0 THEN Raised
        ELSE StrpDate(logfile.rows[1].date)

\* getlogdate of every file there is
LogDate == [p \in AllPaths |-> getlogdate(p)]

\* SetItem that keeps the entry a date already has
SetItemKeepFirst(dict, key, value) ==
    IF key \in DOMAIN dict THEN dict
    ELSE [d \in DOMAIN dict \cup {key} |-> IF d = key THEN value ELSE dict[d]]

\* SetItem that takes a date it already holds for a duplicate and drops it
SetItemDropDuplicate(dict, key, value) ==
    IF key \in DOMAIN dict THEN [d \in DOMAIN dict \ {key} |-> dict[d]]
    ELSE [d \in DOMAIN dict \cup {key} |-> IF d = key THEN value ELSE dict[d]]

\* self.logfiles[date] = file
SetItem(dict, key, value) ==
    [d \in DOMAIN dict \cup {key} |-> IF d = key THEN value ELSE dict[d]]

\* OnCancel without the restore: the partly built index stays
OnCancelKeepPartial(current, logfilescopy) == current

\* OnCancel that resets the index to an empty dict
OnCancelClear(current, logfilescopy) == <<>>

\* what the cancel branch of load_log_list assigns to self.logfiles
OnCancel(current, logfilescopy) == logfilescopy

RECURSIVE LoadLoop(_, _, _, _, _, _, _)
\* the loop of load_log_list from file i on; cancelAt is the number of files
\* after which progress.wasCanceled() is true (0: never)
LoadLoop(dict, logdata, files, i, cancelAt, logfilescopy, oldlist) ==
    IF i > Len(files)
    THEN [logfiles |-> dict, loglist |-> logdata, outcome |-> "loaded", k |-> Len(files)]
    ELSE LET date == LogDate[files[i]]
         IN  IF ~date.ok
             THEN [logfiles |-> dict, loglist |-> oldlist,
                   outcome |-> "exception", k |-> i - 1]
             ELSE IF cancelAt = i
             THEN [logfiles |-> OnCancel(SetItem(dict, date.val, files[i]), logfilescopy),
                   loglist |-> oldlist, outcome |-> "cancelled", k |-> i]
             ELSE LoadLoop(SetItem(dict, date.val, files[i]), Append(logdata, date.val),
                           files, i + 1, cancelAt, logfilescopy, oldlist)

\* load_log_list(files) on the index dict and the overview list oldlist
load_log_list(dict, oldlist, files, cancelAt) ==
    LoadLoop(dict, <<>>, files, 1, cancelAt, dict, oldlist)

(***************************************************************************)
(* The log record parser: item_activated.                                  *)
(***************************************************************************)
\* filling_values of the genfromtxt call
FillingValue == Burning

\* converter 12, lambda s: s.decode()
Decode(s) == IF s = Undecodable THEN Raised ELSE Ok(s)

\* genfromtxt applies a converter loosely: a ValueError yields the filling value
Loose(result) == IF result.ok THEN result.val ELSE FillingValue

\* StatusConv that maps every value outside the four states to Burning
StatusConvEnum(s) ==
    IF s \in {Zuendung, Softstrt, Burning, Nachlauf} THEN s ELSE FillingValue

\* the status converter of the genfromtxt call applied to one raw field
StatusConv(s) == Loose(Decode(s))

\* one row after conversion; Time keeps whether it became a datetime
ConvertRow(row) ==
    [Time |-> [dt |-> convert_time(row.time).ok, text |-> Loose(convert_time(row.time))],
     nums |-> [i \in 1..10 |-> IF IntConv(row.nums[i]).ok
                               THEN IntConv(row.nums[i]).val ELSE -1],
     SM |-> StatusConv(row.sm)]

\* IntColumnsAccept with an integer filling value: nothing is rejected
IntColumnsAcceptFilled(row) == TRUE

\* whether the int columns of the result array accept the row: a numeric
\* field that is not an integer got the filling value, which they reject
IntColumnsAccept(row) == \A i \in 1..10 : IntConv(row.nums[i]).ok

\* the genfromtxt call: every row is converted before anything is returned
genfromtxt(logfile) ==
    IF ~logfile.readable \/ ~logfile.header THEN Raised
    ELSE IF \E r \in 1..Len(logfile.rows) : ~IntColumnsAccept(logfile.rows[r])
         THEN Raised
    ELSE Ok([r \in 1..Len(logfile.rows) |-> ConvertRow(logfile.rows[r])])

\* the genfromtxt call on every file there is
LogData == [p \in AllPaths |-> genfromtxt(Content(p))]

\* the twelve cell texts of one row of the detail table
Cells(rec) == <<rec.Time.text>> \o rec.nums \o <<rec.SM>>

\* the widgets after item_activated has ended in the given way
Widgets(table, graphs, tab, outcome, message) ==
    [table |-> table, graphs |-> graphs, tab |-> tab,
     outcome |-> outcome, message |-> message]

\* NoLogForDay without the return: the table is emptied and shown
NoLogForDayNoReturn(w) == Widgets(<<>>, w.graphs, 1, "warning", "warning")

\* the branch of item_activated for a date without a log: warn and return
NoLogForDay(w) == Widgets(w.table, w.graphs, w.tab, "warning", "warning")

\* item_activated(date) on the widgets w = [table, graphs, tab]
item_activated(dict, w, date) ==
    IF date \notin DOMAIN dict
    THEN NoLogForDay(w)
    ELSE LET logdata == LogData[dict[date]]
             filled == [r \in 1..Len(logdata.val) |-> Cells(logdata.val[r])]
         IN  IF ~logdata.ok
             THEN Widgets(w.table, w.graphs, w.tab, "exception", "none")
             ELSE IF Len(logdata.val) = 1
             \* a single row squeezes to a 0-d array, len() raises
             THEN Widgets(w.table, w.graphs, w.tab, "exception", "none")
             ELSE IF Len(logdata.val) = 0
             \* setRowCount(0), then logdata[0] raises
             THEN Widgets(<<>>, w.graphs, w.tab, "exception", "none")
             ELSE IF \E r \in 1..Len(logdata.val) : ~logdata.val[r].Time.dt
             \* the table is filled, then date2num raises on the filled Time
             THEN Widgets(filled, w.graphs, w.tab, "exception", "none")
             ELSE Widgets(filled, w.graphs + 1, 1, "shown", "none")

(***************************************************************************)
(* The state of the application.                                           *)
(***************************************************************************)
VARIABLES
    windows,        \* the platform: TRUE on Windows, FALSE on POSIX
    running,        \* FALSE once an unhandled exception has ended the process
    logfiles,       \* MainWindow.logfiles, date -> path
    loglist,        \* the dates shown in the overview log list
    logdetaillist,  \* the rows of the detail table
    graphs,         \* the number of canvases in the detail graph tab
    currentIndex,   \* the tab shown by maintabwidget
    event           \* the handler that ran last, its input and how it ended

vars == <<windows, running, logfiles, loglist, logdetaillist, graphs, currentIndex, event>>

\* op: the handler; outcome: how it ended; message: the message box shown;
\* arg: the directory or date; files: the file list of a completed scan;
\* k: the number of files indexed when a scan ended; repeat: a completed
\* scan of the very file list of the completed scan right before it
Ev(op, outcome, message, arg, files, k, repeat) ==
    [op |-> op, outcome |-> outcome, message |-> message, arg |-> arg,
     files |-> files, k |-> k, repeat |-> repeat]

\* the dates the calendar widget offers, as QDate.toString('yyyy-MM-dd')
CalendarDates ==
    {Pad(2013, 4) \o <<"-">> \o Pad(md[1], 2) \o <<"-">> \o Pad(md[2], 2) :
        md \in {<<5, 12>>, <<5, 13>>, <<5, 16>>, <<6, 1>>, <<6, 2>>, <<7, 1>>}}

Init ==
    /\ windows \in BOOLEAN
    /\ running = TRUE
    /\ logfiles = <<>>
    /\ loglist = <<>>
    /\ logdetaillist = <<>>
    /\ graphs = 0
    /\ currentIndex = 0
    /\ event = Ev("init", "none", "none", <<>>, <<>>, 0, FALSE)

\* an unhandled exception in a slot either is printed and the event loop
\* goes on, or aborts the process, depending on the PyQt version
AfterException(outcome) ==
    IF outcome = "exception" THEN running' \in BOOLEAN ELSE running' = TRUE

\* the Open Directory menu action; directory <<>> is a cancelled dialog
OpenAction ==
    /\ running
    /\ \E directory \in Directories \cup {<<>>} :
         IF directory = <<>>
         THEN /\ event' = Ev("open", "dialog_cancelled", "none", directory, <<>>, 0, FALSE)
              /\ UNCHANGED <<logfiles, loglist, running>>
         ELSE \E filelist \in FileLists[windows][directory] :
                IF filelist = <<>>
                THEN /\ event' = Ev("open", "no_files", "none", directory, <<>>, 0, FALSE)
                     /\ UNCHANGED <<logfiles, loglist, running>>
                ELSE \E cancelAt \in 0..Len(filelist) :
                       LET r == load_log_list(logfiles, loglist, filelist, cancelAt)
                       IN  /\ logfiles' = r.logfiles
                           /\ loglist' = r.loglist
                           /\ event' = Ev("open", r.outcome, "none", directory,
                                          IF r.outcome = "loaded" THEN filelist ELSE <<>>,
                                          r.k,
                                          r.outcome = "loaded" /\ event.outcome = "loaded"
                                              /\ event.files = filelist)
                           /\ AfterException(r.outcome)
    /\ UNCHANGED <<windows, logdetaillist, graphs, currentIndex>>

Activate(date, op) ==
    LET r == item_activated(logfiles,
                            [table |-> logdetaillist, graphs |-> graphs, tab |-> currentIndex],
                            date)
    IN  /\ running
        /\ r.graphs <= MaxGraphs
        /\ logdetaillist' = r.table
        /\ graphs' = r.graphs
        /\ currentIndex' = r.tab
        /\ event' = Ev(op, r.outcome, r.message, date, <<>>, 0, FALSE)
        /\ AfterException(r.outcome)
        /\ UNCHANGED <<windows, logfiles, loglist>>

\* a date is activated in the calendar widget
ActivateCalendar == \E date \in CalendarDates : Activate(date, "calendar")

\* a row of the overview log list is activated
ActivateList == \E row \in 1..Len(loglist) : Activate(loglist[row], "list")

\* the user switches to another tab
SelectTab ==
    /\ running
    /\ \E t \in 0..2 :
         /\ t # currentIndex
         /\ currentIndex' = t
         /\ event' = Ev("tab", "none", "none", <<>>, <<>>, 0, FALSE)
    /\ UNCHANGED <<windows, running, logfiles, loglist, logdetaillist, graphs>>

Next == OpenAction \/ ActivateCalendar \/ ActivateList \/ SelectTab

Spec == Init /\ [][Next]_vars

(***************************************************************************)
(* Names used by the properties.                                           *)
(***************************************************************************)
D0512 == <<"2", "0", "1", "3", "-", "0", "5", "-", "1", "2">>

D0513 == <<"2", "0", "1", "3", "-", "0", "5", "-", "1", "3">>

D0516 == <<"2", "0", "1", "3", "-", "0", "5", "-", "1", "6">>

D0601 == <<"2", "0", "1", "3", "-", "0", "6", "-", "0", "1">>

D0602 == <<"2", "0", "1", "3", "-", "0", "6", "-", "0", "2">>

D0701 == <<"2", "0", "1", "3", "-", "0", "7", "-", "0", "1">>

A13 == <<DirA, <<"C", "M", "1", "3", "0", "5", "1", "3", ".", "c", "s", "v">>>>

A15 == <<DirA, <<"C", "M", "1", "3", "0", "5", "1", "5", ".", "c", "s", "v">>>>

A16 == <<DirA, <<"C", "M", "1", "3", "0", "5", "1", "6", ".", "C", "S", "V">>>>

D701 == <<DirD, <<"C", "M", "1", "3", "0", "7", "0", "1", ".", "c", "s", "v">>>>

\* the set of values of a sequence
Range(f) == {f[i] : i \in DOMAIN f}

\* the name is CM, six decimal digits, .csv, letter for letter
ExactName(n) ==
    /\ Len(n) = 12
    /\ n[1] = "C" /\ n[2] = "M"
    /\ \A i \in 3..8 : n[i] \in {"0", "1", "2", "3", "4", "5", "6", "7", "8", "9"}
    /\ n[9] = "." /\ n[10] = "c" /\ n[11] = "s" /\ n[12] = "v"

\* the same, letter case ignored
FoldedName(n) ==
    /\ Len(n) = 12
    /\ n[1] \in {"C", "c"} /\ n[2] \in {"M", "m"}
    /\ \A i \in 3..8 : n[i] \in {"0", "1", "2", "3", "4", "5", "6", "7", "8", "9"}
    /\ n[9] = "." /\ n[10] \in {"C", "c"} /\ n[11] \in {"S", "s"} /\ n[12] \in {"V", "v"}

\* the date embedded in each file that has a data row: first data row, first
\* column, as YYYY-MM-DD
EmbeddedDates ==
    [p \in {q \in AllPaths : Len(Content(q).rows) > 0} |->
        StrpDate(Content(p).rows[1].date).val]

EmbeddedDate(path) == EmbeddedDates[path]

\* the step just taken is an activation of the given kind of date
Activated == event'.op \in {"calendar", "list"}

\* a raw numeric field that is not an integer
NonInteger(s) ==
    \/ Len(s) = 0
    \/ \E i \in 1..Len(s) : ~(IsDigit(s[i]) \/ (i = 1 /\ s[i] = "-" /\ Len(s) > 1))

\* the files with a data row that has a non-integer value in a numeric column
MalformedFiles ==
    {p \in AllPaths :
        \E r \in 1..Len(Content(p).rows) : \E i \in 1..10 :
            NonInteger(Content(p).rows[r].nums[i])}

Malformed(path) == path \in MalformedFiles

FourStates == {Zuendung, Softstrt, Burning, Nachlauf}

\* the contents of every file there is
Contents == [p \in AllPaths |-> Content(p)]

\* the file whose rows the detail table shows after a completed activation
ShownFile == Contents[logfiles[event.arg]]

(***************************************************************************)
(* C1                                                                      *)
(***************************************************************************)
\* C1: a scan that is cancelled after k of its files have been indexed
\* returns with the index exactly as it was before the scan began
C1_CancelRestoresIndex ==
    [][event'.outcome = "cancelled" => logfiles' = logfiles]_vars

\* a scan of the three files of directory a was cancelled after two of them,
\* with a prior index that holds other entries and not theirs
C1_Witness ==
    /\ event.outcome = "cancelled" /\ event.arg = DirA /\ event.k = 2
    /\ windows
    /\ logfiles # <<>>
    /\ D0513 \notin DOMAIN logfiles

(***************************************************************************)
(* C2                                                                      *)
(***************************************************************************)
\* C2 as claimed: every parsed row carries its raw status if that is one of
\* Zuendung, Softstrt, Burning, Nachlauf, and Burning for any other raw value
C2_AsClaimed ==
    event.outcome = "shown" =>
        \A r \in 1..Len(ShownFile.rows) :
            logdetaillist[r][12] = IF ShownFile.rows[r].sm \in FourStates
                                   THEN ShownFile.rows[r].sm
                                   ELSE Burning

\* C2: every parsed row carries its raw status string unchanged whenever that
\* is non-empty decodable text, one of the four named states or not; a raw
\* status that cannot be decoded yields Burning
C2_StatusPassedThrough ==
    event.outcome = "shown" =>
        \A r \in 1..Len(ShownFile.rows) :
            /\ (ShownFile.rows[r].sm \notin {<<>>, Undecodable}
                    => logdetaillist[r][12] = ShownFile.rows[r].sm)
            /\ (ShownFile.rows[r].sm = Undecodable => logdetaillist[r][12] = Burning)

\* the file with the states Zuendung, Aus, empty and undecodable is shown
C2_Witness ==
    /\ event.outcome = "shown"
    /\ event.arg = D0513
    /\ logfiles[D0513] = A13
    /\ Len(logdetaillist) = 4

C4_LastFileWins ==
    [][event'.outcome = "loaded" =>
        LET fl == event'.files
            dates == {EmbeddedDate(fl[i]) : i \in 1..Len(fl)}
        IN  /\ DOMAIN logfiles' = DOMAIN logfiles \cup dates
            /\ \A d \in dates :
                 \E i \in 1..Len(fl) :
                    /\ EmbeddedDate(fl[i]) = d
                    /\ \A j \in (i + 1)..Len(fl) : EmbeddedDate(fl[j]) # d
                    /\ logfiles'[d] = fl[i]
            /\ \A d \in DOMAIN logfiles \ dates : logfiles'[d] = logfiles[d]
      ]_vars

\* directory a was scanned after directory b: both of its files embed
\* 2013-05-13, the second one scanned is indexed, the entries of b remain
C4_Witness ==
    /\ event.outcome = "loaded" /\ event.arg = DirA
    /\ ~windows
    /\ event.files = <<A13, A15>>
    /\ logfiles[D0513] = A15
    /\ D0601 \in DOMAIN logfiles /\ D0602 \in DOMAIN logfiles

(***************************************************************************)
(* C5                                                                      *)
(***************************************************************************)
\* C5: a completed scan directly after a completed scan of the same files in
\* the same order leaves the index as the first scan left it
C5_RescanIdempotent ==
    [][event'.repeat => logfiles' = logfiles]_vars

\* directory a was scanned twice in a row, after another directory
C5_Witness ==
    /\ event.repeat
    /\ event.arg = DirA
    /\ D0601 \in DOMAIN logfiles

(***************************************************************************)
(* C6                                                                      *)
(***************************************************************************)
\* C6: an open-directory action that finds no matching file leaves the index
\* unchanged and tells the caller so
C6_NoMatchReported ==
    [][event'.outcome = "no_files" =>
        logfiles' = logfiles /\ event'.message # "none"]_vars

(***************************************************************************)
(* C7                                                                      *)
(***************************************************************************)
\* C7: activating a date that is not a key of the index shows a warning and
\* returns with the index, the detail table, the chart tab and the shown tab
\* unchanged
C7_NoLogWarning ==
    [][(Activated /\ event'.arg \notin DOMAIN logfiles) =>
        /\ event'.outcome = "warning" /\ event'.message = "warning"
        /\ running'
        /\ UNCHANGED <<logfiles, logdetaillist, graphs, currentIndex>>
      ]_vars

\* a date without a log was activated while a log was shown and the user
\* looked at the chart tab
C7_Witness ==
    /\ event.outcome = "warning" /\ event.arg = D0512
    /\ logfiles # <<>>
    /\ logdetaillist # <<>>
    /\ graphs = 1
    /\ currentIndex = 2

(***************************************************************************)
(* C8                                                                      *)
(***************************************************************************)
\* C8: a scan that fails on the date of its k-th file ends with the index as
\* it was before the scan began
C8_FailureRestoresIndex ==
    [][(event'.op = "open" /\ event'.outcome = "exception") =>
        logfiles' = logfiles]_vars

C10_ListedDatesIndexed ==
    /\ \A row \in 1..Len(loglist) : loglist[row] \in DOMAIN logfiles
    /\ event.op = "list" => event.outcome # "warning"

\* a listed row was activated after a later scan was cancelled: the index
\* holds more dates than the list shows
C10_Witness ==
    /\ event.op = "list"
    /\ loglist # <<>>
    /\ Range(loglist) # DOMAIN logfiles

====
